---------------------------- MODULE Spec2Model ----------------------------
(***************************************************************************)
(* A model of Password-Strength-Checker.py: the scoring functions          *)
(* (char_classes, shannon_entropy, simple_score), the wordlist matcher     *)
(* (check_local_wordlist), the breach lookup (hibp_pwned_count) and the    *)
(* orchestrator (analyze_password) with the module globals it reads and    *)
(* writes.                                                                 *)
(*                                                                         *)
(* Strings are sequences of characters; a character is a one-element       *)
(* token ("a", "LF", "CR", ...).  Floating-point bit counts are fixed-point*)
(* integers in units of 1/Scale bit.                                       *)
(***************************************************************************)
EXTENDS Integers, Sequences, FiniteSets, TLC

VARIABLES
    password,   \* argument of the current call: the password
    wordlist,   \* argument of analyze_password: the wordlist path or None
    hibp,       \* argument of analyze_password: breach check requested
    verbose,    \* argument of analyze_password
    flags,      \* last value returned by char_classes
    entropy,    \* last value returned by shannon_entropy (fixed point)
    scored,     \* last value returned by simple_score: <<score, label>>
    fs,         \* what the wordlist path resolves to in the file system
    found,      \* last outcome of check_local_wordlist
    hibp_ret,   \* last outcome of hibp_pwned_count
    out,        \* analyze_password's result dictionary under construction
    ret,        \* last outcome of analyze_password
    pc,         \* where the current call is: idle, prompt, install or http
    caller,     \* who called hibp_pwned_count: analyze_password or a direct call
    zxcvbn,     \* module global zxcvbn
    requests,   \* module global requests
    installed,  \* whether the package requests can be imported
    sent,       \* the request the current call has issued
    resp,       \* what the transport gave back to the current call
    typed,      \* what input() gave back to the current call
    wire        \* everything transmitted so far: <<password, url>> pairs

args == <<password, wordlist, hibp, verbose>>
pure == <<flags, entropy, scored>>
globals == <<zxcvbn, requests, installed>>
net == <<sent, resp, wire, typed>>
vars == <<args, pure, fs, found, hibp_ret, out, ret, pc, caller, globals, net>>

-----------------------------------------------------------------------------
(* Bounds of the model *)

\* longest password the scoring specification analyses
MaxLen == 16

\* longest password and longest wordlist file of the wordlist specification
MaxPwLen == 2
MaxFileLen == 4

\* most lines in a breach-service response body of the breach specification
MaxLines == 2

-----------------------------------------------------------------------------
(* Characters *)

LF == "LF"
CR == "CR"

\* a caseless letter (CJK ideograph): alphanumeric, neither upper nor lower
Han == "U+4E2D"

UpperChars == {"A", "B"}
LowerChars == {"a", "b", "p", "x", "o", "q", "w", "e", "r", "t", "y"}
DigitChars == {"1", "7"}
OtherAlnum == {Han}

isupper(c) == c \in UpperChars
islower(c) == c \in LowerChars
isdigit(c) == c \in DigitChars
isalnum(c) == c \in UpperChars \cup LowerChars \cup DigitChars \cup OtherAlnum

Range(s) == {s[i] : i \in DOMAIN s}

\* Python's sum() over a list of booleans
BoolSum(bs) == Cardinality({i \in DOMAIN bs : bs[i]})

-----------------------------------------------------------------------------
(* char_classes *)

char_classes(pw) ==
    LET has_upper   == \E c \in Range(pw) : isupper(c)
        has_lower   == \E c \in Range(pw) : islower(c)
        has_digit   == \E c \in Range(pw) : isdigit(c)
        has_special == \E c \in Range(pw) : ~isalnum(c)
    IN  <<has_upper, has_lower, has_digit, has_special>>

-----------------------------------------------------------------------------
(* shannon_entropy *)

\* resolution of the fixed-point representation of a float: 1/Scale bit
Scale == 10 ^ 6

\* math.log2(k) for k = 1..24, in units of 1/Scale, rounded down
Log2Table ==
    <<0, 1000000, 1584962, 2000000, 2321928, 2584962, 2807354, 3000000,
      3169925, 3321928, 3459431, 3584962, 3700439, 3807354, 3906890, 4000000,
      4087462, 4169925, 4247927, 4321928, 4392317, 4459431, 4523561, 4584962>>

\* mutant: the logarithm of the count instead of the probability
PLog2P_OfCount(count, length) == count * Log2Table[count]

\* length * p * log2(p) for p = count / length
PLog2P(count, length) == count * (Log2Table[count] - Log2Table[length])

RECURSIVE EntropySum(_, _, _)
EntropySum(frequency, keys, length) ==
    IF keys = {} THEN 0
    ELSE LET k == CHOOSE x \in keys : TRUE
         IN  EntropySum(frequency, keys \ {k}, length)
                 - PLog2P(frequency[k], length)

shannon_entropy(pw) ==
    IF pw = <<>> THEN 0
    ELSE LET frequency == [ch \in Range(pw) |->
                              Cardinality({i \in DOMAIN pw : pw[i] = ch})]
             length == Len(pw)
         IN  EntropySum(frequency, DOMAIN frequency, length)

-----------------------------------------------------------------------------
(* simple_score *)

EntropyThreshold == 40

LabelTable ==
    [s \in 0..4 |-> CASE s = 0 -> "Very weak"
                      [] s = 1 -> "Weak"
                      [] s = 2 -> "Moderate"
                      [] s = 3 -> "Strong"
                      [] s = 4 -> "Very strong"]

Min(a, b) == IF a <= b THEN a ELSE b

\* mutant: the entropy threshold compared with > instead of >=
simple_score_StrictEntropy(pw) ==
    LET length  == Len(pw)
        classes == BoolSum(char_classes(pw))
        ent     == shannon_entropy(pw)
        s1 == IF length >= 8 THEN 1 ELSE 0
        s2 == IF length >= 12 THEN s1 + 1 ELSE s1
        s3 == IF classes >= 2 THEN s2 + 1 ELSE s2
        score == IF classes >= 3 /\ ent > EntropyThreshold * Scale
                 THEN s3 + 1 ELSE s3
        label == LabelTable[Min(score, 4)]
    IN  <<score, label>>

simple_score(pw) ==
    LET length  == Len(pw)
        classes == BoolSum(char_classes(pw))
        ent     == shannon_entropy(pw)
        s1 == IF length >= 8 THEN 1 ELSE 0
        s2 == IF length >= 12 THEN s1 + 1 ELSE s1
        s3 == IF classes >= 2 THEN s2 + 1 ELSE s2
        score == IF classes >= 3 /\ ent >= EntropyThreshold * Scale
                 THEN s3 + 1 ELSE s3
        label == LabelTable[Min(score, 4)]
    IN  <<score, label>>

-----------------------------------------------------------------------------
(* Outcomes of a call: a returned value or a raised exception *)

NotCalled == [kind |-> "none"]
Return(v) == [kind |-> "return", value |-> v]
Raise(e, a) == [kind |-> "raise", exc |-> e, arg |-> a]

Seqs(S, n) == UNION {[1..k -> S] : k \in 0..n}

-----------------------------------------------------------------------------
(* check_local_wordlist *)

\* the states of the path in the file system
Missing == [kind |-> "missing"]
Directory == [kind |-> "dir"]
File(readable, content) ==
    [kind |-> "file", readable |-> readable, content |-> content]

\* a byte that is no valid UTF-8
BadByte == "0xFF"

\* str.rstrip(chars)
RECURSIVE rstrip(_, _)
rstrip(s, chars) ==
    IF s # <<>> /\ s[Len(s)] \in chars
    THEN rstrip(SubSeq(s, 1, Len(s) - 1), chars)
    ELSE s

\* decoding with errors="ignore": invalid bytes are dropped
RECURSIVE Decode(_)
Decode(bytes) ==
    IF bytes = <<>> THEN <<>>
    ELSE IF bytes[1] = BadByte THEN Decode(Tail(bytes))
         ELSE <<bytes[1]>> \o Decode(Tail(bytes))

\* text mode with universal newlines: CR LF and a lone CR are read as LF
RECURSIVE Translate(_)
Translate(s) ==
    IF s = <<>> THEN <<>>
    ELSE IF s[1] = CR
         THEN IF Len(s) >= 2 /\ s[2] = LF
              THEN <<LF>> \o Translate(SubSeq(s, 3, Len(s)))
              ELSE <<LF>> \o Translate(Tail(s))
         ELSE <<s[1]>> \o Translate(Tail(s))

\* iterating over the file: each line with its terminator, the last one
\* possibly without
RECURSIVE SplitLines(_, _)
SplitLines(s, cur) ==
    IF s = <<>> THEN (IF cur = <<>> THEN <<>> ELSE <<cur>>)
    ELSE IF s[1] = LF
         THEN <<Append(cur, LF)>> \o SplitLines(Tail(s), <<>>)
         ELSE SplitLines(Tail(s), Append(cur, s[1]))

FileLines(content) == SplitLines(Translate(Decode(content)), <<>>)

isfile(f) == f.kind = "file"

check_local_wordlist(pw, path, f) ==
    IF ~isfile(f) THEN Raise("FileNotFoundError", <<path>>)
    ELSE IF ~f.readable THEN Raise("PermissionError", <<path>>)
    ELSE LET password_stripped == rstrip(pw, {LF})
             lines == FileLines(f.content)
         IN  Return(\E i \in DOMAIN lines :
                        rstrip(lines[i], {CR, LF}) = password_stripped)

-----------------------------------------------------------------------------
(* Python values held in the result dictionary and in the module globals *)

PyNone == [tag |-> "None"]
PyBool(b) == [tag |-> "bool", v |-> b]
PyInt(i) == [tag |-> "int", v |-> i]
PyFloat(x) == [tag |-> "float", v |-> x]
PyStr(x) == [tag |-> "str", v |-> x]
PyDict(d) == [tag |-> "dict", v |-> d]
Module(name) == [tag |-> "module", v |-> name]

\* truth value of a Python object in an if statement
Truthy(x) ==
    CASE x.tag = "None" -> FALSE
      [] x.tag = "str" -> x.v # ""
      [] x.tag = "bool" -> x.v
      [] OTHER -> TRUE

EmptyDict == [k \in {} |-> PyNone]

\* d[k] = v
Put(d, k, v) == [x \in DOMAIN d \cup {k} |-> IF x = k THEN v ELSE d[x]]

-----------------------------------------------------------------------------
(* hibp_pwned_count *)

\* hashlib.sha1(password.encode("utf-8")).hexdigest()
Sha1Hex(pw) ==
    CASE pw = <<"p", "7">> ->
           <<"e", "8", "8", "b", "9", "e", "b", "4", "a", "2",
             "9", "3", "4", "3", "7", "6", "2", "5", "2", "2",
             "7", "c", "5", "2", "9", "4", "6", "0", "d", "0",
             "e", "0", "0", "a", "2", "1", "6", "e", "9", "d">>
      [] pw = <<"x", "o">> ->
           <<"e", "8", "8", "b", "9", "d", "3", "7", "b", "0",
             "8", "1", "5", "8", "b", "4", "9", "3", "5", "4",
             "f", "d", "8", "5", "a", "3", "c", "4", "e", "0",
             "9", "5", "e", "0", "6", "5", "b", "c", "7", "6">>
      [] pw = <<"q", "w", "e", "r", "t", "y">> ->
           <<"b", "1", "b", "3", "7", "7", "3", "a", "0", "5",
             "c", "0", "e", "d", "0", "1", "7", "6", "7", "8",
             "7", "a", "4", "f", "1", "5", "7", "4", "f", "f",
             "0", "0", "7", "5", "f", "7", "5", "2", "1", "e">>

\* str.upper() on hexadecimal digits
UpperChar(c) ==
    CASE c = "a" -> "A" [] c = "b" -> "B" [] c = "c" -> "C"
      [] c = "d" -> "D" [] c = "e" -> "E" [] c = "f" -> "F"
      [] OTHER -> c

upper(s) == [i \in DOMAIN s |-> UpperChar(s[i])]

Sha1Upper(pw) == upper(Sha1Hex(pw))

\* sha1[:5] and sha1[5:]
Prefix(sha1) == SubSeq(sha1, 1, 5)
Suffix(sha1) == SubSeq(sha1, 6, Len(sha1))

UrlBase == "https://api.pwnedpasswords.com/range/"

HttpTimeout == 10

\* mutant: the whole digest in the URL
Request_FullDigest(pw) ==
    [url |-> <<UrlBase>> \o Sha1Upper(pw), timeout |-> HttpTimeout]

\* mutant: no timeout given
Request_NoTimeout(pw) ==
    [url |-> <<UrlBase>> \o Prefix(Sha1Upper(pw)), timeout |-> 0]

\* the arguments of requests.get
Request(pw) ==
    [url |-> <<UrlBase>> \o Prefix(Sha1Upper(pw)), timeout |-> HttpTimeout]

NoRequest == [url |-> <<>>, timeout |-> 0]

\* what requests.get does: raises, or returns a response.  The text of a
\* response is held as splitlines() and split(":") cut it: a sequence of
\* lines, each the sequence of its colon-separated fields.
TransportError(e) == [kind |-> "exception", exc |-> e]
Response(status, lines) ==
    [kind |-> "response", status_code |-> status, lines |-> lines]
NoResponse == [kind |-> "none"]

\* int(count)
IsDecimal(tok) == tok \in {"0", "3", "7"}
IntOf(tok) == CASE tok = "0" -> 0 [] tok = "3" -> 3 [] tok = "7" -> 7

\* mutant: return 0 inside the loop, after the first line
ScanLines_FirstLineOnly(lines, suffix) ==
    IF lines = <<>> THEN Return(0)
    ELSE LET line == lines[1]
         IN  IF Len(line) # 2
             THEN Raise("ValueError", <<"not enough values to unpack">>)
             ELSE IF line[1] = suffix
                  THEN IF IsDecimal(line[2])
                       THEN Return(IntOf(line[2]))
                       ELSE Raise("ValueError", <<"invalid literal for int()">>)
                  ELSE Return(0)

RECURSIVE ScanLines(_, _)

ScanLines(lines, suffix) ==
    IF lines = <<>> THEN Return(0)
    ELSE LET line == lines[1]
         IN  IF Len(line) # 2
             THEN Raise("ValueError", <<"not enough values to unpack">>)
             ELSE IF line[1] = suffix
                  THEN IF IsDecimal(line[2])
                       THEN Return(IntOf(line[2]))
                       ELSE Raise("ValueError", <<"invalid literal for int()">>)
                  ELSE ScanLines(Tail(lines), suffix)

\* mutant: a status other than 200 read as "not found"
HandleTransport_StatusIgnored(t, pw) ==
    IF t.kind = "exception" THEN Raise(t.exc, <<t.exc>>)
    ELSE IF t.status_code # 200
         THEN Return(0)
         ELSE ScanLines(t.lines, Suffix(Sha1Upper(pw)))

\* hibp_pwned_count from the return of requests.get on
HandleTransport(t, pw) ==
    IF t.kind = "exception" THEN Raise(t.exc, <<t.exc>>)
    ELSE IF t.status_code # 200
         THEN Raise("RuntimeError", <<"HIBP API error: ", t.status_code>>)
         ELSE ScanLines(t.lines, Suffix(Sha1Upper(pw)))

\* input(...).strip().lower()
StripLower(a) == CASE a = " Yes" -> "yes" [] OTHER -> a

EndOfInput == "EOF"
NoInput == "<none>"

-----------------------------------------------------------------------------
(* analyze_password, part by part *)

\* round(x, 2): to hundredths of a bit, ties to even
Round2(x) ==
    LET q == x \div (Scale \div 100)
        r == x % (Scale \div 100)
        half == Scale \div 200
    IN  IF r > half \/ (r = half /\ q % 2 = 1) THEN q + 1 ELSE q

MandatoryFields(pw) ==
    LET cls == char_classes(pw)
        sc == simple_score(pw)
        o1 == Put(EmptyDict, "password_length", PyInt(Len(pw)))
        o2 == Put(o1, "has_upper", PyBool(cls[1]))
        o3 == Put(o2, "has_lower", PyBool(cls[2]))
        o4 == Put(o3, "has_digit", PyBool(cls[3]))
        o5 == Put(o4, "has_special", PyBool(cls[4]))
        o6 == Put(o5, "entropy_bits", PyFloat(Round2(shannon_entropy(pw))))
        o7 == Put(o6, "simple_score", PyInt(sc[1]))
    IN  Put(o7, "label", PyStr(sc[2]))

\* zx is what zxcvbn.zxcvbn(password) does: raises or returns a dictionary
ZxcvbnFields(o, zxmod, zx) ==
    IF Truthy(zxmod)
    THEN IF zx.kind = "raise"
         THEN Put(o, "zxcvbn_score", PyNone)
         ELSE Put(Put(o, "zxcvbn_score", PyInt(zx.value.score)),
                  "zxcvbn_feedback", PyDict(zx.value.feedback))
    ELSE o

\* mutant: only the error text is stored for a missing wordlist
WordlistFields_NoVerdict(o, w, wl) ==
    IF wl.kind = "return" THEN Put(o, "found_in_wordlist", PyBool(wl.value))
    ELSE IF wl.kind = "raise" /\ wl.exc = "FileNotFoundError"
         THEN Put(o, "wordlist_error", PyStr(<<"Wordlist not found: ", w.v>>))
         ELSE o

\* wl is the outcome of check_local_wordlist, NotCalled without a path
WordlistFields(o, w, wl) ==
    IF wl.kind = "return" THEN Put(o, "found_in_wordlist", PyBool(wl.value))
    ELSE IF wl.kind = "raise" /\ wl.exc = "FileNotFoundError"
         THEN Put(Put(o, "found_in_wordlist", PyNone),
                  "wordlist_error", PyStr(<<"Wordlist not found: ", w.v>>))
         ELSE o

\* an exception of the wordlist check that the except clause does not name
Escapes(wl) == wl.kind = "raise" /\ wl.exc # "FileNotFoundError"

\* h is the outcome of hibp_pwned_count
HibpFields(o, h) ==
    IF h.kind = "return" THEN Put(o, "hibp_count", PyInt(h.value))
    ELSE Put(o, "hibp_error", PyStr(h.arg))

VerboseFields(o, v, pw) ==
    IF v
    THEN Put(o, "complex",
             PyDict([classes_count |-> PyInt(BoolSum(char_classes(pw)))]))
    ELSE o

-----------------------------------------------------------------------------
(* Steps of hibp_pwned_count.  The function waits for the world at three   *)
(* places: input() and pip in ensure_package, and requests.get.            *)

\* requests.get(url, timeout=10) is called: the request leaves the process
SendRequest(pw) ==
    /\ sent' = Request(pw)
    /\ wire' = wire \cup {<<pw, Request(pw).url>>}
    /\ pc' = "http"

\* mutant: the loaded module is dropped again by the next lookup
EnterHibp_DropsModule(pw) ==
    IF requests = PyNone
    THEN IF installed
         THEN /\ requests' = Module("requests")
              /\ UNCHANGED installed
              /\ SendRequest(pw)
         ELSE /\ pc' = "prompt"
              /\ sent' = NoRequest
              /\ UNCHANGED <<requests, installed, wire>>
    ELSE /\ requests' = PyNone
         /\ UNCHANGED installed
         /\ SendRequest(pw)

\* from the entry of hibp_pwned_count to its first wait
EnterHibp(pw) ==
    IF requests = PyNone
    THEN IF installed
         THEN \* __import__ succeeds
              /\ requests' = Module("requests")
              /\ UNCHANGED installed
              /\ SendRequest(pw)
         ELSE \* ImportError: ensure_package asks the user
              /\ pc' = "prompt"
              /\ sent' = NoRequest
              /\ UNCHANGED <<requests, installed, wire>>
    ELSE /\ UNCHANGED <<requests, installed>>
         /\ SendRequest(pw)

\* hibp_pwned_count returns or raises h; analyze_password stores it, adds
\* the verbose field and returns
Deliver(h) ==
    /\ hibp_ret' = h
    /\ pc' = "idle"
    /\ IF caller = "analyze"
       THEN /\ out' = VerboseFields(HibpFields(out, h), verbose, password)
            /\ ret' = Return(out')
       ELSE UNCHANGED <<out, ret>>

\* the user answers the install prompt, or closes the input
UserAnswers(a) ==
    /\ pc = "prompt"
    /\ typed' = a
    /\ IF a = EndOfInput
       THEN /\ Deliver(Raise("EOFError", <<"EOF when reading a line">>))
            /\ UNCHANGED <<requests, installed, sent, wire>>
       ELSE IF StripLower(a) \in {"y", "yes"}
            THEN /\ pc' = "install"
                 /\ UNCHANGED <<hibp_ret, out, ret, requests, installed,
                                sent, wire>>
            ELSE \* ensure_package returns None, hibp_pwned_count returns -1
                 /\ requests' = PyNone
                 /\ Deliver(Return(-1))
                 /\ UNCHANGED <<installed, sent, wire>>
    /\ UNCHANGED <<args, pure, fs, found, caller, zxcvbn, resp>>

\* pip install ends
PipFinishes(ok) ==
    /\ pc = "install"
    /\ IF ok
       THEN /\ installed' = TRUE
            /\ requests' = Module("requests")
            /\ SendRequest(password)
            /\ UNCHANGED <<hibp_ret, out, ret>>
       ELSE /\ Deliver(Raise("CalledProcessError", <<"pip install requests">>))
            /\ UNCHANGED <<requests, installed, sent, wire>>
    /\ UNCHANGED <<args, pure, fs, found, caller, zxcvbn, resp, typed>>

\* requests.get returns a response or raises (a timeout included)
HttpReturns(t) ==
    /\ pc = "http"
    /\ resp' = t
    /\ Deliver(HandleTransport(t, password))
    /\ UNCHANGED <<args, pure, fs, found, caller, globals, sent, wire, typed>>

\* a direct call of hibp_pwned_count
CallHibp(pw) ==
    /\ pc = "idle"
    /\ password' = pw
    /\ caller' = "direct"
    /\ resp' = NoResponse
    /\ typed' = NoInput
    /\ hibp_ret' = NotCalled
    /\ EnterHibp(pw)
    /\ UNCHANGED <<wordlist, hibp, verbose, pure, fs, found, out, ret, zxcvbn>>

-----------------------------------------------------------------------------
(* analyze_password, from its entry to its return or to the first wait of  *)
(* the breach lookup                                                       *)

AnalyzePassword(pw, w, h, v, f, zx) ==
    /\ pc = "idle"
    /\ password' = pw
    /\ wordlist' = w
    /\ hibp' = h
    /\ verbose' = v
    /\ fs' = f
    /\ caller' = "analyze"
    /\ flags' = char_classes(pw)
    /\ entropy' = shannon_entropy(pw)
    /\ scored' = simple_score(pw)
    /\ resp' = NoResponse
    /\ typed' = NoInput
    /\ hibp_ret' = NotCalled
    /\ UNCHANGED zxcvbn
    /\ LET wl == IF Truthy(w) THEN check_local_wordlist(pw, w.v, f)
                 ELSE NotCalled
           o2 == ZxcvbnFields(MandatoryFields(pw), zxcvbn, zx)
           o3 == WordlistFields(o2, w, wl)
       IN  /\ found' = wl
           /\ IF Escapes(wl)
              THEN \* the exception leaves analyze_password
                   /\ out' = o2
                   /\ ret' = wl
                   /\ pc' = "idle"
                   /\ sent' = NoRequest
                   /\ UNCHANGED <<requests, installed, wire>>
              ELSE IF h
                   THEN /\ out' = o3
                        /\ ret' = NotCalled
                        /\ EnterHibp(pw)
                   ELSE /\ out' = VerboseFields(o3, v, pw)
                        /\ ret' = Return(out')
                        /\ pc' = "idle"
                        /\ sent' = NoRequest
                        /\ UNCHANGED <<requests, installed, wire>>

-----------------------------------------------------------------------------
(* Inputs *)

\* a line of text without a colon
Junk == <<"j", "u", "n", "k">>

P7 == <<"p", "7">>
XO == <<"x", "o">>
Qwerty == <<"q", "w", "e", "r", "t", "y">>

WordlistPath == "common.txt"

Answers == {"y", " Yes", "n", EndOfInput}

ZxOutcomes ==
    {Raise("Exception", <<"zxcvbn">>),
     Return([score |-> 2, feedback |-> EmptyDict])}

AnalysisPasswords == {P7, Qwerty}
AnalysisWordlists == {PyNone, PyStr(""), PyStr(WordlistPath)}
AnalysisFiles ==
    {Missing, Directory, File(FALSE, Qwerty \o <<LF>>),
     File(TRUE, Qwerty \o <<LF>>), File(TRUE, <<>>)}
AnalysisTransports(pw) ==
    {TransportError("ConnectionError"), TransportError("Timeout"),
     Response(503, <<>>), Response(200, <<>>),
     Response(200, << <<Suffix(Sha1Upper(pw)), "3">> >>),
     Response(200, << <<Junk>> >>)}

-----------------------------------------------------------------------------
(* Specification of the program: calls of analyze_password, one after the  *)
(* other, in a process whose start-up detection found zxcvbn or did not.   *)

InitCommon ==
    /\ password = <<>>
    /\ wordlist = PyNone
    /\ hibp = FALSE
    /\ verbose = FALSE
    /\ fs = Missing
    /\ found = NotCalled
    /\ hibp_ret = NotCalled
    /\ out = EmptyDict
    /\ ret = NotCalled
    /\ pc = "idle"
    /\ caller = "none"
    /\ requests = PyNone
    /\ sent = NoRequest
    /\ resp = NoResponse
    /\ typed = NoInput
    /\ wire = {}

Init ==
    /\ InitCommon
    /\ flags = NotCalled
    /\ entropy = NotCalled
    /\ scored = NotCalled
    /\ zxcvbn \in {PyNone, Module("zxcvbn")}
    /\ installed \in BOOLEAN

Call ==
    \E pw \in AnalysisPasswords, w \in AnalysisWordlists, h \in BOOLEAN,
       v \in BOOLEAN, f \in AnalysisFiles, zx \in ZxOutcomes :
        /\ Truthy(w) \/ f = Missing
        /\ AnalyzePassword(pw, w, h, v, f, zx)

Answer == \E a \in Answers : UserAnswers(a)

Pip == \E ok \in BOOLEAN : PipFinishes(ok)

Http ==
    /\ pc = "http"
    /\ \E t \in AnalysisTransports(password) : HttpReturns(t)

Next == Call \/ Answer \/ Pip \/ Http

Spec == Init /\ [][Next]_vars

\* requests.get is given a timeout: it returns or raises within it
FairSpec == Spec /\ WF_vars(Http)

-----------------------------------------------------------------------------
(* Specification of the breach lookup called on its own                    *)

BreachPasswords == {P7, XO, Qwerty}

BreachLines ==
    {<<Suffix(Sha1Upper(pw)), c>> : pw \in BreachPasswords, c \in {"3", "7"}}
        \cup {<<Junk>>, <<Suffix(Sha1Upper(P7)), "x">>}

BreachTransports ==
    {TransportError("ConnectionError"), TransportError("Timeout")}
        \cup {Response(st, ls) : st \in {200, 503},
                                 ls \in Seqs(BreachLines, MaxLines)}

BreachInit ==
    /\ InitCommon
    /\ flags = NotCalled
    /\ entropy = NotCalled
    /\ scored = NotCalled
    /\ zxcvbn = PyNone
    /\ installed \in BOOLEAN

BreachCall == \E pw \in BreachPasswords : CallHibp(pw)

BreachHttp == \E t \in BreachTransports : HttpReturns(t)

BreachNext == BreachCall \/ Answer \/ Pip \/ BreachHttp

SpecBreach == BreachInit /\ [][BreachNext]_vars

-----------------------------------------------------------------------------
(* Specification of the scoring functions: every password over             *)
(* ScoreAlphabet of length at most MaxLen, one string per character        *)
(* multiset (characters in alphabet order).                                *)

ScoreAlphabet == <<"A", "B", "a", "b", "1", "!", Han>>

IndexOf(c) == CHOOSE i \in DOMAIN ScoreAlphabet : ScoreAlphabet[i] = c

ScoreInit ==
    /\ InitCommon
    /\ zxcvbn = PyNone
    /\ installed = FALSE
    /\ flags = char_classes(<<>>)
    /\ entropy = shannon_entropy(<<>>)
    /\ scored = simple_score(<<>>)

ScorePassword(c) ==
    /\ Len(password) < MaxLen
    /\ IF password = <<>> THEN TRUE
       ELSE IndexOf(password[Len(password)]) <= IndexOf(c)
    /\ password' = Append(password, c)
    /\ flags' = char_classes(password')
    /\ entropy' = shannon_entropy(password')
    /\ scored' = simple_score(password')
    /\ UNCHANGED <<wordlist, hibp, verbose, fs, found, hibp_ret, out, ret,
                   pc, caller, globals, net>>

ScoreNext == \E c \in Range(ScoreAlphabet) : ScorePassword(c)

SpecScore == ScoreInit /\ [][ScoreNext]_vars

-----------------------------------------------------------------------------
(* Specification of the wordlist matcher: every password and every file    *)
(* content within the bounds, and every state of the path.                 *)

WlPasswords == Seqs({"a", LF, CR}, MaxPwLen)
WlContents == Seqs({"a", LF, CR, BadByte}, MaxFileLen)
WlFiles == {Missing, Directory}
               \cup {File(r, c) : r \in BOOLEAN, c \in WlContents}

WordlistInit ==
    /\ password \in WlPasswords
    /\ wordlist = PyStr(WordlistPath)
    /\ hibp = FALSE
    /\ verbose = FALSE
    /\ fs \in WlFiles
    /\ found = NotCalled
    /\ hibp_ret = NotCalled
    /\ out = EmptyDict
    /\ ret = NotCalled
    /\ pc = "idle"
    /\ caller = "none"
    /\ requests = PyNone
    /\ sent = NoRequest
    /\ resp = NoResponse
    /\ typed = NoInput
    /\ wire = {}
    /\ flags = NotCalled
    /\ entropy = NotCalled
    /\ scored = NotCalled
    /\ zxcvbn = PyNone
    /\ installed = FALSE

CheckWordlist ==
    /\ found = NotCalled
    /\ found' = check_local_wordlist(password, wordlist.v, fs)
    /\ UNCHANGED <<args, pure, fs, hibp_ret, out, ret, pc, caller, globals,
                   net>>

WordlistNext == CheckWordlist

SpecWordlist == WordlistInit /\ [][WordlistNext]_vars

-----------------------------------------------------------------------------
(* Properties of the scoring functions (SpecScore)                         *)

Bit(b) == IF b THEN 1 ELSE 0

\* C1: simple_score returns (score, label) with score = [length >= 8]
\* + [length >= 12] + [classCount >= 2] + [classCount >= 3 and entropy
\* >= 40], the score is in 0..4, and the label is the table entry of the
\* score: 0 Very weak, 1 Weak, 2 Moderate, 3 Strong, 4 Very strong.
C1_ScoreAndLabel ==
    LET length == Len(password)
        classCount == Bit(flags[1]) + Bit(flags[2]) + Bit(flags[3])
                          + Bit(flags[4])
        score == scored[1]
        label == scored[2]
    IN  /\ score = Bit(length >= 8) + Bit(length >= 12) + Bit(classCount >= 2)
                     + Bit(classCount >= 3 /\ entropy >= 40 * Scale)
        /\ score \in 0..4
        /\ score = 0 => label = "Very weak"
        /\ score = 1 => label = "Weak"
        /\ score = 2 => label = "Moderate"
        /\ score = 3 => label = "Strong"
        /\ score = 4 => label = "Very strong"

\* C1 witness: a password of three or more classes whose entropy is exactly
\* the threshold, scored 4
C1_Witness ==
    /\ entropy = 40 * Scale
    /\ scored = <<4, "Very strong">>
    /\ Bit(flags[1]) + Bit(flags[2]) + Bit(flags[3]) + Bit(flags[4]) >= 3

\* C10: shannon_entropy(s) >= 0 for every s, and it is exactly 0 when s is
\* empty or all characters of s are the same.
C10_EntropyNonNegative ==
    /\ entropy >= 0
    /\ password = <<>> => entropy = 0
    /\ Cardinality(Range(password)) = 1 => entropy = 0

\* C10 witness: a string of three or more equal characters, entropy 0
C10_Witness ==
    /\ Len(password) >= 3
    /\ Cardinality(Range(password)) = 1
    /\ entropy = 0

-----------------------------------------------------------------------------
(* Properties of the wordlist matcher (SpecWordlist)                       *)

\* C7: for an existing resource, check_local_wordlist returns True exactly
\* when some line equals the password after trailing CR and LF have been
\* stripped in the same way from both, and False otherwise; for a resource
\* that does not exist it raises the resource-not-found failure.
C7_SameStripping ==
    found.kind # "none" =>
        /\ (fs.kind = "file" /\ fs.readable) =>
               LET lines == FileLines(fs.content)
               IN  found = Return(\E i \in DOMAIN lines :
                                      rstrip(lines[i], {CR, LF})
                                          = rstrip(password, {CR, LF}))
        /\ fs.kind = "missing" =>
               (found.kind = "raise" /\ found.exc = "FileNotFoundError")

-----------------------------------------------------------------------------
(* Properties of analyze_password (Spec, FairSpec)                         *)

\* analyze_password has been called and the call is over
CallOver == caller = "analyze" /\ pc = "idle" /\ ret.kind # "none"

Has(d, k) == k \in DOMAIN d

MandatoryKeys ==
    {"password_length", "has_upper", "has_lower", "has_digit", "has_special",
     "entropy_bits", "simple_score", "label"}

ownSuffix == Suffix(Sha1Upper(password))

\* the lines whose part before the colon is the password's suffix
Matches == {i \in DOMAIN resp.lines : resp.lines[i][1] = ownSuffix}

FirstMatch == CHOOSE i \in Matches : \A j \in Matches : i <= j

\* every line read before the result is one suffix:count pair with a
\* decimal count: the lines up to the first one with the password's
\* suffix, all lines when there is none
Readable ==
    IF Matches = {}
    THEN \A i \in DOMAIN resp.lines : Len(resp.lines[i]) = 2
    ELSE /\ \A i \in 1..FirstMatch : Len(resp.lines[i]) = 2
         /\ IsDecimal(resp.lines[FirstMatch][2])

\* the breach service was asked and answered 200 with a readable body
LookupSucceeded ==
    /\ sent # NoRequest
    /\ resp.kind = "response"
    /\ resp.status_code = 200
    /\ Readable

\* C2: with a wordlist path and the breach check both configured, for every
\* wordlist outcome (found, not found, resource missing) and every breach
\* outcome, the result holds the mandatory fields, a wordlist verdict and a
\* breach field (count or error); a failed wordlist check does not stop the
\* breach lookup from being run, and a failed breach lookup does not remove
\* the wordlist verdict.
C2_FailureIsolation ==
    (CallOver /\ Truthy(wordlist) /\ hibp
        /\ (fs.kind \in {"missing", "dir"} \/ (fs.kind = "file" /\ fs.readable)))
    => /\ ret.kind = "return"
       /\ MandatoryKeys \subseteq DOMAIN ret.value
       /\ ret.value["password_length"] = PyInt(Len(password))
       /\ ret.value["simple_score"] = PyInt(scored[1])
       /\ Has(ret.value, "found_in_wordlist")
       /\ Has(ret.value, "hibp_count") \/ Has(ret.value, "hibp_error")
       /\ found.kind = "raise" =>
              /\ hibp_ret.kind # "none"
              /\ ret.value["found_in_wordlist"] = PyNone
       /\ found.kind = "return" =>
              ret.value["found_in_wordlist"] = PyBool(found.value)

\* C2 witness: the wordlist is missing and the breach service answers 503
C2_Witness ==
    /\ CallOver
    /\ ret.kind = "return"
    /\ found.kind = "raise"
    /\ resp = Response(503, <<>>)
    /\ Has(ret.value, "hibp_error")
    /\ Has(ret.value, "wordlist_error")

\* C3 as stated: the breach part of a result is in exactly one of three
\* states: not requested, neither hibp_count nor hibp_error; requested and
\* failed, hibp_error without hibp_count; requested and succeeded, a
\* non-negative hibp_count without hibp_error; hibp_count is present only
\* when a lookup was attempted and succeeded.
C3_ThreeStates ==
    (CallOver /\ ret.kind = "return") =>
        LET r == ret.value
        IN  /\ ~hibp => ~Has(r, "hibp_count") /\ ~Has(r, "hibp_error")
            /\ (hibp /\ ~LookupSucceeded) =>
                   Has(r, "hibp_error") /\ ~Has(r, "hibp_count")
            /\ (hibp /\ LookupSucceeded) =>
                   /\ Has(r, "hibp_count") /\ ~Has(r, "hibp_error")
                   /\ r["hibp_count"].v >= 0
            /\ Has(r, "hibp_count") => LookupSucceeded

\* the package requests was missing and the user declined to install it
DeclinedInstall == typed \in {"n"}

\* C3 amended: four states.  Not requested: neither field.  Requested, the
\* package requests missing and its installation declined: hibp_count is
\* the sentinel -1, no request was sent, no hibp_error.  Requested and the
\* lookup succeeded: a non-negative hibp_count, no hibp_error.  Requested
\* and anything else (transport error, timeout, status other than 200,
\* unreadable body, installation failed or input closed): hibp_error and
\* no hibp_count.
C3_FourStates ==
    (CallOver /\ ret.kind = "return") =>
        LET r == ret.value
        IN  /\ ~hibp => ~Has(r, "hibp_count") /\ ~Has(r, "hibp_error")
            /\ (hibp /\ DeclinedInstall) =>
                   /\ Has(r, "hibp_count") /\ ~Has(r, "hibp_error")
                   /\ r["hibp_count"] = PyInt(-1)
                   /\ sent = NoRequest
            /\ (hibp /\ LookupSucceeded) =>
                   /\ Has(r, "hibp_count") /\ ~Has(r, "hibp_error")
                   /\ r["hibp_count"].v >= 0
            /\ (hibp /\ ~LookupSucceeded /\ ~DeclinedInstall) =>
                   Has(r, "hibp_error") /\ ~Has(r, "hibp_count")
            /\ (hibp /\ resp.kind = "response" /\ resp.status_code # 200) =>
                   /\ Has(r, "hibp_error")
                   /\ r["hibp_error"] =
                          PyStr(<<"HIBP API error: ", resp.status_code>>)

\* C3 witness: the breach service answered 503 and the result holds
\* hibp_error and no hibp_count
C3_Witness ==
    /\ CallOver
    /\ ret.kind = "return"
    /\ hibp
    /\ resp = Response(503, <<>>)
    /\ Has(ret.value, "hibp_error")
    /\ ~Has(ret.value, "hibp_count")

\* C4: when the configured wordlist path does not resolve to a readable
\* resource (missing, not a regular file, or a file that cannot be opened
\* for reading), analyze_password returns a result whose found_in_wordlist
\* is None together with wordlist_error, and raises nothing.
C4_UnreadableIsIndeterminate ==
    (CallOver /\ Truthy(wordlist) /\ ~(fs.kind = "file" /\ fs.readable))
    => /\ ret.kind = "return"
       /\ Has(ret.value, "found_in_wordlist")
       /\ ret.value["found_in_wordlist"] = PyNone
       /\ Has(ret.value, "wordlist_error")

\* C8 as stated: no step of any call changes the module globals zxcvbn and
\* requests.
C8_GlobalsNeverChange ==
    [][zxcvbn' = zxcvbn /\ requests' = requests]_vars

\* C8 amended: no call changes zxcvbn; requests changes only from None to
\* the imported module, only in a call that asked for the breach check, and
\* once it holds the module it keeps it.
C8_OnlyLazyLoad ==
    [][/\ zxcvbn' = zxcvbn
       /\ requests' # requests =>
              /\ requests = PyNone
              /\ requests' = Module("requests")
              /\ caller' = "analyze" => hibp'
       /\ requests = Module("requests") => requests' = Module("requests")]_vars

\* C8 witness: a call that loaded requests has returned
C8_Witness ==
    /\ CallOver
    /\ ret.kind = "return"
    /\ requests = Module("requests")

\* C9 as stated: a call waits for the world only at the network request.
C9_WaitsOnlyOnNetwork == pc \in {"idle", "http"}

\* C9 amended: the network request carries the timeout of 10 and a call
\* waiting for it always returns; the only other places where a call
\* waits are the installation prompt and the installation itself.
C9_NetworkWaitEnds ==
    /\ [](pc \in {"idle", "http", "prompt", "install"})
    /\ [](pc = "http" => sent.timeout = 10)
    /\ (pc = "http") ~> (pc = "idle" /\ ret.kind = "return")

\* C9 witness: analyze_password waits for the breach service
C9_Witness == pc = "http" /\ caller = "analyze"

-----------------------------------------------------------------------------
(* Properties of hibp_pwned_count (SpecBreach)                             *)

LookupOver == caller = "direct" /\ pc = "idle" /\ resp.kind = "response"

StatusError == Raise("RuntimeError", <<"HIBP API error: ", resp.status_code>>)

\* C5 as stated: for every transport response, status 200 and a line with
\* the password's suffix give that line's count; status 200 and no such
\* line give 0; any other status raises a failure carrying the status.
C5_EveryResponse ==
    LookupOver =>
        IF resp.status_code # 200 THEN hibp_ret = StatusError
        ELSE IF Matches = {} THEN hibp_ret = Return(0)
        ELSE \E i \in Matches :
                 /\ Len(resp.lines[i]) = 2
                 /\ IsDecimal(resp.lines[i][2])
                 /\ hibp_ret = Return(IntOf(resp.lines[i][2]))

\* C5 amended: as stated for the responses whose lines, up to the first
\* line with the password's suffix (all lines when there is none), are
\* each one suffix:count pair with a decimal count; the count returned is
\* the first matching line's.  On any other body with status 200 the
\* function raises ValueError.
C5_ReadableResponse ==
    LookupOver =>
        IF resp.status_code # 200 THEN hibp_ret = StatusError
        ELSE IF ~Readable
             THEN hibp_ret.kind = "raise" /\ hibp_ret.exc = "ValueError"
             ELSE IF Matches = {} THEN hibp_ret = Return(0)
                  ELSE hibp_ret = Return(IntOf(resp.lines[FirstMatch][2]))

\* C5 witness: the second line of the body carries the password's suffix
\* and the count 7
C5_Witness ==
    /\ LookupOver
    /\ resp.status_code = 200
    /\ Len(resp.lines) = 2
    /\ Matches = {2}
    /\ hibp_ret = Return(7)

\* C6: what is transmitted depends on the password only through the first
\* five characters of its upper-case SHA-1 digest: two passwords with the
\* same five characters send the same request, and a request is the service
\* URL followed by those five characters and nothing else.
C6_OnlyPrefixLeaves ==
    /\ \A a \in wire, b \in wire :
           Prefix(Sha1Upper(a[1])) = Prefix(Sha1Upper(b[1])) => a[2] = b[2]
    /\ \A a \in wire :
           /\ Len(a[2]) = 6
           /\ a[2][1] = UrlBase
           /\ SubSeq(a[2], 2, 6) = SubSeq(Sha1Upper(a[1]), 1, 5)
    /\ sent # NoRequest => <<password, sent.url>> \in wire

\* C6 witness: two different passwords with the same five characters have
\* both been looked up
C6_Witness ==
    \E a \in wire, b \in wire :
        /\ a[1] # b[1]
        /\ Prefix(Sha1Upper(a[1])) = Prefix(Sha1Upper(b[1]))

=============================================================================
